---- MODULE Spec2Model ----
(***************************************************************************)
(* A model of the EuRoC dataset accessor library: the per-sensor facades   *)
(* (camera, IMU, ground truth, position), their folder validation, their   *)
(* calibration accessors over sensor.yaml and their record iterators over  *)
(* data.csv.                                                               *)
(***************************************************************************)
EXTENDS Integers, Sequences, FiniteSets, TLC

VARIABLES
    kind,     \* which facade is modelled: "camera", "imu", "ground_truth", "position"
    fs,       \* the sensor folder on disk: which of the required paths exist
    log,      \* the rows of data.csv, the header row first
    yaml,     \* the content of sensor.yaml
    facade,   \* "none" before construction, then "ok" (Self { path }) or "err"
    iters,    \* the iterators handed out by records(), by slot
    opened,   \* which files have ever been opened: [csv, yaml]
    ret,      \* the last call and what it returned
    prev      \* the calibration accessor call before the last one

vars == <<kind, fs, log, yaml, facade, iters, opened, ret, prev>>

----------------------------------------------------------------------------
(* Bounds of the model *)

MaxRows == 2      \* data rows in a log
MaxEnds == 2      \* next() calls made after the end of the sequence
MaxIters == 2     \* records() calls per facade

----------------------------------------------------------------------------
(* Result values *)

Ok(v) == [tag |-> "Ok", v |-> v]
Err(e) == [tag |-> "Err", e |-> e]
Panic(m) == [tag |-> "Panic", m |-> m]
None == [some |-> FALSE]
Some(v) == [some |-> TRUE, v |-> v]

NoCall == [op |-> "none"]

Kinds == {"camera", "imu", "ground_truth", "position"}

\* Number of columns each iterator indexes: row[0] .. row[Cols-1].
Cols(k) ==
    CASE k = "camera" -> 2
      [] k = "imu" -> 7
      [] k = "ground_truth" -> 17
      [] k = "position" -> 4

----------------------------------------------------------------------------
(* data.csv.  A row is [n, ts, bad, img]: n fields; ts the value of field 0 *)
(* when it is the decimal text of a u64 and 0 when it is any other text     *)
(* (timestamps of the model are positive); bad the index of the first field *)
(* that is not the text of an f64 (0: none); img whether the image file     *)
(* named by field 1 of a camera row opens and decodes.                     *)

Timestamps == 1..2

GoodRow(k, t) == [n |-> Cols(k), ts |-> t, bad |-> 0, img |-> "ok"]
BadTsRow(k) == [n |-> Cols(k), ts |-> 0, bad |-> 0, img |-> "ok"]
BadFieldRow(k) ==
    IF k = "camera"
    THEN [n |-> Cols(k), ts |-> 1, bad |-> 0, img |-> "bad"]
    ELSE [n |-> Cols(k), ts |-> 1, bad |-> Cols(k) - 1, img |-> "ok"]
ShortRow(k) == [n |-> Cols(k) - 1, ts |-> 1, bad |-> 0, img |-> "ok"]

DataRows(k) ==
    {GoodRow(k, t) : t \in Timestamps} \cup {BadTsRow(k), BadFieldRow(k), ShortRow(k)}

\* The header row: column names, none of them numeric.
Header(n) == [n |-> n, ts |-> 0, bad |-> 1, img |-> "bad"]

SeqsUpTo(S, m) == UNION {[1..j -> S] : j \in 0..m}

Logs(k) ==
    {<<Header(n)>> \o rows : n \in {Cols(k), Cols(k) - 1}, rows \in SeqsUpTo(DataRows(k), MaxRows)}

----------------------------------------------------------------------------
(* csv::Reader over an open file.  rd = [off, first, hdr]: rows of the file *)
(* consumed, the field count of the first row read (0: none yet), whether   *)
(* the header row has been set.                                            *)

\* File::open gives a handle of its own at offset 0; from_reader wraps it.
SharedCursorReader(i) ==
    IF i > 1 /\ iters[1].st = "open" THEN iters[1].rd
    ELSE [off |-> 0, first |-> 0, hdr |-> FALSE]
NewReader(i) == [off |-> 0, first |-> 0, hdr |-> FALSE]

\* A reader that starts over once it has reached the end of the file.
ReadImplRewind(file, rd) ==
    IF rd.off >= Len(file) THEN [got |-> "eof", rd |-> [rd EXCEPT !.off = 1]]
    ELSE LET row == file[rd.off + 1]
             rd2 == [rd EXCEPT !.off = @ + 1,
                               !.first = IF @ = 0 THEN row.n ELSE @]
         IN  IF rd.first # 0 /\ row.n # rd.first
             THEN [got |-> "err", rd |-> rd2]
             ELSE [got |-> "row", row |-> row, rd |-> rd2]

\* One row off the file; rows whose field count differs from the first
\* row's are an UnequalLengths error (the reader is not flexible).
ReadImpl(file, rd) ==
    IF rd.off >= Len(file) THEN [got |-> "eof", rd |-> rd]
    ELSE LET row == file[rd.off + 1]
             rd2 == [rd EXCEPT !.off = @ + 1,
                               !.first = IF @ = 0 THEN row.n ELSE @]
         IN  IF rd.first # 0 /\ row.n # rd.first
             THEN [got |-> "err", rd |-> rd2]
             ELSE [got |-> "row", row |-> row, rd |-> rd2]

\* The reader has headers: the first row read is kept as the header and
\* never returned; the read goes on to the row after it.
ReaderNoHeaderSkip(file, rd) == ReadImpl(file, [rd EXCEPT !.hdr = TRUE])
\* A reader that drops a row as a header on every read.
ReaderNextAlwaysSkip(file, rd) ==
    LET r1 == ReadImpl(file, rd)
    IN  ReadImpl(file, [r1.rd EXCEPT !.hdr = TRUE])
ReaderNext(file, rd) ==
    IF rd.hdr THEN ReadImpl(file, rd)
    ELSE LET r1 == ReadImpl(file, rd)
         IN  ReadImpl(file, [r1.rd EXCEPT !.hdr = TRUE])

----------------------------------------------------------------------------
(* Parsing a row into a record.  Fields are parsed in column order and the *)
(* first failure decides: ? on a parse error returns it, indexing a        *)
(* field the row does not have panics.                                     *)

\* row[0].parse::<u64>()
ParseTimestamp(row) ==
    IF row.ts > 0 THEN Ok(row.ts) ELSE Err("ParseIntError")

\* row[1].parse::<f64>()? .. row[cols-1].parse::<f64>()?
ParseFloats(row, cols) ==
    LET firstBad == IF row.bad = 0 THEN cols ELSE row.bad
    IN  IF firstBad < cols /\ firstBad < row.n THEN Err("ParseFloatError")
        ELSE IF row.n < cols THEN Panic("index out of bounds")
        ELSE Ok("floats")

\* The record of a row of a numeric log (IMU, ground truth, position).
ParseNumericRow(k, row) ==
    LET t == ParseTimestamp(row)
        f == ParseFloats(row, Cols(k))
    IN  IF t.tag # "Ok" THEN t
        ELSE IF f.tag # "Ok" THEN f
        ELSE Ok([timestamp |-> t.v, sensor |-> k])

\* image::open(self.path.join(&row[1]))
ImageOpen(row) ==
    IF row.n < 2 THEN Panic("index out of bounds")
    ELSE IF row.img = "ok" THEN Ok("image")
    ELSE Err("ImageError")

\* The record of a row of a camera log.
ParseImageRow(row) ==
    LET t == ParseTimestamp(row)
        im == ImageOpen(row)
    IN  IF t.tag # "Ok" THEN t
        ELSE IF im.tag # "Ok" THEN im
        ELSE Ok([timestamp |-> t.v, image |-> im.v])

\* What a call leaves behind: the value returned (None, Some(item), or a
\* panic) and the reader after it.
Step(item, rd) == [item |-> item, rd |-> rd]
Returned(r) == IF r.tag = "Panic" THEN r ELSE Some(r)

ImageIteratorNext(file, rd) ==
    LET r == ReaderNext(file, rd)
    IN  IF r.got = "eof" THEN Step(None, r.rd)
        ELSE IF r.got = "err" THEN Step(Some(Err("CsvError")), r.rd)
        ELSE Step(Returned(ParseImageRow(r.row)), r.rd)

ImuIteratorNext(file, rd) ==
    LET r == ReaderNext(file, rd)
    IN  IF r.got = "eof" THEN Step(None, r.rd)
        ELSE IF r.got = "err" THEN Step(Some(Err("CsvError")), r.rd)
        ELSE Step(Returned(ParseNumericRow("imu", r.row)), r.rd)

\* A position iterator whose first failing row ends the stream.
PositionIteratorNextFatal(file, rd) ==
    LET r == ReaderNext(file, rd)
        p == ParseNumericRow("position", r.row)
    IN  IF r.got = "eof" THEN Step(None, r.rd)
        ELSE IF r.got = "err"
        THEN Step(Some(Err("CsvError")), [r.rd EXCEPT !.off = Len(file)])
        ELSE IF p.tag = "Err" THEN Step(Some(p), [r.rd EXCEPT !.off = Len(file)])
        ELSE Step(Returned(p), r.rd)

PositionIteratorNext(file, rd) ==
    LET r == ReaderNext(file, rd)
    IN  IF r.got = "eof" THEN Step(None, r.rd)
        ELSE IF r.got = "err" THEN Step(Some(Err("CsvError")), r.rd)
        ELSE Step(Returned(ParseNumericRow("position", r.row)), r.rd)

GroundTruthIteratorNext(file, rd) ==
    LET r == ReaderNext(file, rd)
    IN  IF r.got = "eof" THEN Step(None, r.rd)
        ELSE IF r.got = "err" THEN Step(Some(Err("CsvError")), r.rd)
        ELSE Step(Returned(ParseNumericRow("ground_truth", r.row)), r.rd)

IteratorNext(k, file, rd) ==
    CASE k = "camera" -> ImageIteratorNext(file, rd)
      [] k = "imu" -> ImuIteratorNext(file, rd)
      [] k = "position" -> PositionIteratorNext(file, rd)
      [] k = "ground_truth" -> GroundTruthIteratorNext(file, rd)

----------------------------------------------------------------------------
(* The facade's records() and the iterator's next().  An iterator slot is  *)
(* [st, rd, out, ends]: "none" (not handed out), "open", or "dead" (a      *)
(* next() call panicked and unwound); its reader; the items next() has     *)
(* returned so far; how many times next() has returned None.               *)

NoIter == [st |-> "none", rd |-> [off |-> 0, first |-> 0, hdr |-> FALSE],
           out |-> <<>>, ends |-> 0]

Slots == 1..MaxIters

\* A records() that leaves opening the log to the first next().
RecordsDeferred(i) == Ok([NoIter EXCEPT !.st = "open", !.rd = NewReader(i)])

\* records(): File::open(data.csv)? and a reader over the handle.
RecordsResult(i) ==
    IF ~fs.csv THEN Err("Io")
    ELSE Ok([NoIter EXCEPT !.st = "open", !.rd = NewReader(i)])

Records(i) ==
    /\ facade = "ok"
    /\ iters[i].st = "none"
    /\ \A j \in Slots : j < i => iters[j].st # "none"
    /\ LET r == RecordsResult(i)
       IN  /\ iters' = IF r.tag = "Ok" THEN [iters EXCEPT ![i] = r.v] ELSE iters
           /\ opened' = IF r.tag = "Ok" THEN [opened EXCEPT !.csv = TRUE] ELSE opened
           /\ ret' = [op |-> "records", it |-> i, res |-> IF r.tag = "Ok" THEN Ok(i) ELSE r]
    /\ UNCHANGED <<kind, fs, log, yaml, facade, prev>>

NextCall(i) ==
    /\ iters[i].st = "open"
    /\ iters[i].ends < MaxEnds
    /\ LET s == IteratorNext(kind, log, iters[i].rd)
           it == iters[i]
       IN  /\ iters' = [iters EXCEPT ![i] =
                  IF "tag" \in DOMAIN s.item
                  THEN [it EXCEPT !.st = "dead", !.rd = s.rd]
                  ELSE IF s.item.some
                  THEN [it EXCEPT !.rd = s.rd, !.out = Append(@, s.item.v)]
                  ELSE [it EXCEPT !.rd = s.rd, !.ends = @ + 1]]
           /\ ret' = [op |-> "next", it |-> i, res |-> s.item]
    /\ UNCHANGED <<kind, fs, log, yaml, facade, opened, prev>>

----------------------------------------------------------------------------
(* Folder validation at construction: the ensure! checks, in order.  The   *)
(* error names the condition that failed.                                  *)

CameraRecordsNew(f) ==
    IF ~f.dir THEN Err("path.is_dir()")
    ELSE IF ~f.data THEN Err("path.join(DATA).is_dir()")
    ELSE IF ~f.csv THEN Err("path.join(DATA_CSV).is_file()")
    ELSE IF ~f.yaml THEN Err("path.join(SENSOR_YAML).is_file()")
    ELSE Ok("Self")

ImuDataNew(f) ==
    IF ~f.dir THEN Err("path.is_dir()")
    ELSE IF ~f.csv THEN Err("path.join(DATA_CSV).is_file()")
    ELSE IF ~f.yaml THEN Err("path.join(SENSOR_YAML).is_file()")
    ELSE Ok("Self")

PositionDataNew(f) ==
    IF ~f.dir THEN Err("path.is_dir()")
    ELSE IF ~f.csv THEN Err("path.join(DATA_CSV).is_file()")
    ELSE IF ~f.yaml THEN Err("path.join(SENSOR_YAML).is_file()")
    ELSE Ok("Self")

GroundTruthDataNew(f) ==
    IF ~f.dir THEN Err("path.is_dir()")
    ELSE IF ~f.csv THEN Err("path.join(DATA_CSV).is_file()")
    ELSE IF ~f.yaml THEN Err("path.join(SENSOR_YAML).is_file()")
    ELSE Ok("Self")

\* A constructor that forgets the descriptor check.
FacadeNewNoYamlCheck(k, f) ==
    IF k = "camera" THEN CameraRecordsNew([f EXCEPT !.yaml = TRUE])
    ELSE ImuDataNew([f EXCEPT !.yaml = TRUE])
\* The sensor-open calls of the dataset root: root.join(name), then new.
FacadeNew(k, f) ==
    CASE k = "camera" -> CameraRecordsNew(f)
      [] k = "imu" -> ImuDataNew(f)
      [] k = "position" -> PositionDataNew(f)
      [] k = "ground_truth" -> GroundTruthDataNew(f)

New ==
    /\ facade = "none"
    /\ LET r == FacadeNew(kind, fs)
       IN  /\ facade' = IF r.tag = "Ok" THEN "ok" ELSE "err"
           /\ ret' = [op |-> "new", res |-> r]
    /\ UNCHANGED <<kind, fs, log, yaml, iters, opened, prev>>

\* The environment removes data.csv or sensor.yaml under a live facade.
Unlink(name) ==
    /\ facade = "ok"
    /\ fs[name]
    /\ fs' = [fs EXCEPT ![name] = FALSE]
    /\ UNCHANGED <<kind, log, yaml, facade, iters, opened, ret, prev>>

----------------------------------------------------------------------------
(* sensor.yaml.  yaml = [syntax, docs]: whether the text scans as YAML, and *)
(* the documents it holds; a document maps each key to its node.  Nodes:    *)
(* Real (a float literal, stood for by an integer), Integer (an i64, held   *)
(* as q * 2^16 + r with 0 <= r < 2^16), Array, Hash (of T_BS, with its      *)
(* data node) and BadValue (what indexing yields for an absent key).       *)

Radix == 2 ^ 16

Real(x) == [t |-> "real", v |-> x]
Integer(q, r) == [t |-> "int", q |-> q, r |-> r]
Array(s) == [t |-> "array", v |-> s]
Hash(d) == [t |-> "hash", data |-> d]
BadValue == [t |-> "bad"]

Keys == {"resolution", "intrinsics", "distortion_coefficients", "T_BS",
         "gyroscope_noise_density", "gyroscope_random_walk",
         "accelerometer_noise_density", "accelerometer_random_walk"}

\* 0, 752, 2^32 - 1, 2^32 and -1 as i64 values.
I64Samples ==
    {Integer(0, 0), Integer(0, 752), Integer(Radix - 1, Radix - 1),
     Integer(Radix, 0), Integer(-1, Radix - 1)}

Resolutions == {<<a, b>> : a \in I64Samples, b \in I64Samples}

FixtureResolution == <<Integer(0, 752), Integer(0, 480)>>
FixtureIntrinsics == <<Real(458), Real(457), Real(367), Real(248)>>
IntrinsicsSamples == {FixtureIntrinsics, <<Real(3), Real(5), Real(7), Real(11)>>}

Identity16 == [j \in 1..16 |-> Real(IF j \in {1, 6, 11, 16} THEN 1 ELSE 0)]

BaseDoc(res, intr) ==
    [k \in Keys |->
        CASE k = "resolution" -> Array(res)
          [] k = "intrinsics" -> Array(intr)
          [] k = "distortion_coefficients" -> Array(<<Real(21), Real(22), Real(23), Real(24)>>)
          [] k = "T_BS" -> Hash(Array(Identity16))
          [] k = "gyroscope_noise_density" -> Real(31)
          [] k = "gyroscope_random_walk" -> Real(32)
          [] k = "accelerometer_noise_density" -> Real(33)
          [] k = "accelerometer_random_walk" -> Real(34)]

FixtureDoc == BaseDoc(FixtureResolution, FixtureIntrinsics)

Without(doc, key) == [doc EXCEPT ![key] = BadValue]

\* Descriptors whose nodes have the wrong shape: a sequence of the wrong
\* length, an integer literal where a float is read, a float where an
\* integer is read.
MisshapenDocs ==
    {[FixtureDoc EXCEPT !["resolution"] = Array(FixtureResolution \o <<Integer(0, 3)>>)],
     [FixtureDoc EXCEPT !["resolution"] = Array(<<Real(752), Real(480)>>)],
     [FixtureDoc EXCEPT !["intrinsics"] = Array(<<Real(458), Real(457), Real(367)>>)],
     [FixtureDoc EXCEPT !["intrinsics"] = Array(<<Integer(0, 458), Real(457), Real(367), Real(248)>>)]}

Docs ==
    {BaseDoc(res, intr) : res \in Resolutions, intr \in IntrinsicsSamples}
        \cup {Without(FixtureDoc, k) : k \in Keys}
        \cup MisshapenDocs

Descriptors ==
    {[syntax |-> "bad", docs |-> <<>>], [syntax |-> "ok", docs |-> <<>>]}
        \cup {[syntax |-> "ok", docs |-> <<d>>] : d \in Docs}

FixtureYaml == [syntax |-> "ok", docs |-> <<FixtureDoc>>]

\* load_yaml: fs::read_to_string(path)?, then YamlLoader::load_from_str(&f)?
load_yaml ==
    IF ~fs.yaml THEN Err("Io")
    ELSE IF yaml.syntax # "ok" THEN Err("ScanError")
    ELSE Ok(yaml.docs)

read_sensor_yaml == load_yaml

\* docs[0]
Doc0(docs) ==
    IF Len(docs) = 0 THEN Panic("index out of bounds: the len is 0")
    ELSE Ok(docs[1])

\* node["data"]: the node under the key of a hash, BadValue of anything else
IndexData(node) == IF node.t = "hash" THEN node.data ELSE BadValue

\* v.as_i64().unwrap().try_into().unwrap(), to u32
NarrowU32(node) ==
    IF node.t # "int" THEN Panic("unwrap on None")
    ELSE IF node.q < 0 \/ node.q >= Radix
    THEN Panic("unwrap on Err: TryFromIntError")
    ELSE Ok([q |-> node.q, r |-> node.r])

\* v.as_f64().unwrap()
AsF64(node) ==
    IF node.t # "real" THEN Panic("unwrap on None")
    ELSE Ok(node.v)

\* The closure mapped over the nodes of a sequence.
Conv(c, node) == IF c = "u32" THEN NarrowU32(node) ELSE AsF64(node)

\* node.as_vec().unwrap().iter().map(conv).collect(), then assert!(len):
\* the first node that does not convert panics.
Collect(node, c, len) ==
    IF node.t # "array" THEN Panic("unwrap on None")
    ELSE IF \E j \in 1..Len(node.v) : Conv(c, node.v[j]).tag # "Ok"
    THEN Conv(c, node.v[CHOOSE j \in 1..Len(node.v) :
                 /\ Conv(c, node.v[j]).tag # "Ok"
                 /\ \A i \in 1..(j - 1) : Conv(c, node.v[i]).tag = "Ok"])
    ELSE IF Len(node.v) # len THEN Panic("assertion failed: data.len()")
    ELSE Ok([j \in 1..len |-> Conv(c, node.v[j]).v])

\* read_sensor_yaml()?[0]
Document ==
    LET y == read_sensor_yaml
    IN  IF y.tag # "Ok" THEN y ELSE Doc0(y.v)

image_size ==
    LET d == Document
    IN  IF d.tag # "Ok" THEN d
        ELSE LET data == Collect(d.v["resolution"], "u32", 2)
             IN  IF data.tag # "Ok" THEN data ELSE Ok(<<data.v[1], data.v[2]>>)

intrinsics ==
    LET d == Document
    IN  IF d.tag # "Ok" THEN d
        ELSE LET data == Collect(d.v["intrinsics"], "f64", 4)
             IN  IF data.tag # "Ok" THEN data
                 ELSE Ok(<<data.v[1], data.v[2], data.v[3], data.v[4]>>)

\* Matrix3::from_rows of (fu, 0, cu), (0, fv, cv), (0, 0, 1)
MatrixTransposed(i) == <<<<i[1], 0, 0>>, <<0, i[2], 0>>, <<i[3], i[4], 1>>>>
PinholeMatrix(i) == <<<<i[1], 0, i[3]>>, <<0, i[2], i[4]>>, <<0, 0, 1>>>>

camera_matrix ==
    LET i == intrinsics
    IN  IF i.tag # "Ok" THEN i ELSE Ok(PinholeMatrix(i.v))

distrotion_coeff ==
    LET d == Document
    IN  IF d.tag # "Ok" THEN d
        ELSE Collect(d.v["distortion_coefficients"], "f64", 4)

\* Matrix4::from_row_slice(&data)
FromRowSlice(data) == [i \in 1..4 |-> [j \in 1..4 |-> data[4 * (i - 1) + j]]]

extrinsics ==
    LET d == Document
    IN  IF d.tag # "Ok" THEN d
        ELSE LET data == Collect(IndexData(d.v["T_BS"]), "f64", 16)
             IN  IF data.tag # "Ok" THEN data ELSE Ok(FromRowSlice(data.v))

\* The four noise accessors of the IMU: [0][key].as_f64().unwrap()
Noise(key) ==
    LET d == Document
    IN  IF d.tag # "Ok" THEN d ELSE AsF64(d.v[key])

gyro_noise_density == Noise("gyroscope_noise_density")
gyro_random_walk == Noise("gyroscope_random_walk")
accel_noise_density == Noise("accelerometer_noise_density")
accel_random_walk == Noise("accelerometer_random_walk")

\* The calibration accessors each facade has.
Accessors(k) ==
    CASE k = "camera" ->
            {"image_size", "intrinsics", "camera_matrix", "distrotion_coeff", "extrinsics"}
      [] k = "imu" ->
            {"extrinsics", "gyro_noise_density", "gyro_random_walk",
             "accel_noise_density", "accel_random_walk"}
      [] k = "position" -> {"extrinsics"}
      [] k = "ground_truth" -> {"extrinsics"}

Accessor(op) ==
    CASE op = "image_size" -> image_size
      [] op = "intrinsics" -> intrinsics
      [] op = "camera_matrix" -> camera_matrix
      [] op = "distrotion_coeff" -> distrotion_coeff
      [] op = "extrinsics" -> extrinsics
      [] op = "gyro_noise_density" -> gyro_noise_density
      [] op = "gyro_random_walk" -> gyro_random_walk
      [] op = "accel_noise_density" -> accel_noise_density
      [] op = "accel_random_walk" -> accel_random_walk

Call(op) ==
    /\ facade = "ok"
    /\ op \in Accessors(kind)
    /\ ret' = [op |-> op, res |-> Accessor(op)]
    /\ prev' = IF ret.op \in Accessors(kind) THEN ret ELSE prev
    /\ opened' = IF fs.yaml THEN [opened EXCEPT !.yaml = TRUE] ELSE opened
    /\ UNCHANGED <<kind, fs, log, yaml, facade, iters>>

AccessorNames == UNION {Accessors(k) : k \in Kinds}

----------------------------------------------------------------------------
(* Specifications *)

Layouts ==
    {[dir |-> FALSE, data |-> FALSE, csv |-> FALSE, yaml |-> FALSE]}
        \cup {[dir |-> TRUE, data |-> d, csv |-> c, yaml |-> y] :
                d \in BOOLEAN, c \in BOOLEAN, y \in BOOLEAN}

FullLayout == [dir |-> TRUE, data |-> TRUE, csv |-> TRUE, yaml |-> TRUE]

NothingOpened == [csv |-> FALSE, yaml |-> FALSE]

\* Record iteration: a facade over a well-formed folder, any log.
Init ==
    /\ kind \in Kinds
    /\ fs = FullLayout
    /\ log \in Logs(kind)
    /\ yaml = FixtureYaml
    /\ facade = "ok"
    /\ iters = [i \in Slots |-> NoIter]
    /\ opened = NothingOpened
    /\ ret = NoCall
    /\ prev = NoCall

Next ==
    \/ \E i \in Slots : Records(i)
    \/ \E i \in Slots : NextCall(i)

Spec == Init /\ [][Next]_vars

\* Folder validation: any layout on disk, construction, and files removed
\* under the live facade.
FixtureLog(k) == <<Header(Cols(k)), GoodRow(k, 1), GoodRow(k, 2)>>

InitFolder ==
    /\ kind \in Kinds
    /\ fs \in Layouts
    /\ log = FixtureLog(kind)
    /\ yaml = FixtureYaml
    /\ facade = "none"
    /\ iters = [i \in Slots |-> NoIter]
    /\ opened = NothingOpened
    /\ ret = NoCall
    /\ prev = NoCall

NextFolder ==
    \/ New
    \/ \E name \in {"csv", "yaml"} : Unlink(name)
    \/ \E i \in Slots : Records(i)
    \/ \E i \in Slots : NextCall(i)
    \/ \E op \in AccessorNames : Call(op)

SpecFolder == InitFolder /\ [][NextFolder]_vars

\* Calibration: a live facade over any descriptor, the descriptor possibly
\* removed since construction.
InitDesc ==
    /\ kind \in Kinds
    /\ fs \in {FullLayout, [FullLayout EXCEPT !.yaml = FALSE]}
    /\ log = FixtureLog(kind)
    /\ yaml \in Descriptors
    /\ facade = "ok"
    /\ iters = [i \in Slots |-> NoIter]
    /\ opened = NothingOpened
    /\ ret = NoCall
    /\ prev = NoCall

NextDesc == \E op \in AccessorNames : Call(op)

SpecDesc == InitDesc /\ [][NextDesc]_vars

----------------------------------------------------------------------------
(* Properties *)

DataRowCount == Len(log) - 1

\* The record a data row stands for.
RowRecord(k, row) ==
    IF k = "camera" THEN ParseImageRow(row) ELSE ParseNumericRow(k, row)

\* A row with every column of the sensor's layout, all of them numeric
\* (for the camera: a timestamp and an image that decodes).
WellFormedRow(row) ==
    /\ row.n = Cols(kind)
    /\ row.ts > 0
    /\ row.bad = 0
    /\ row.img = "ok"

WellFormedLog ==
    /\ log[1].n = Cols(kind)
    /\ \A k \in 2..Len(log) : WellFormedRow(log[k])

\* next() calls made on an iterator so far.
CallsMade(it) == Len(it.out) + it.ends + (IF it.st = "dead" THEN 1 ELSE 0)

\* C1: for every sensor kind and every well-formed log of a header and N
\* data rows, the k-th item records() yields is the record of the k-th data
\* row, the header is never yielded, and a drained iterator has yielded
\* exactly N items (the file's row count minus one).
C1_RecordsInFileOrder ==
    WellFormedLog =>
        \A i \in Slots :
            LET it == iters[i]
            IN  /\ it.st # "dead"
                /\ Len(it.out) <= DataRowCount
                /\ \A k \in 1..Len(it.out) :
                      /\ it.out[k].tag = "Ok"
                      /\ it.out[k].v.timestamp = log[k + 1].ts
                      /\ it.out[k] = RowRecord(kind, log[k + 1])
                /\ it.ends > 0 => Len(it.out) = DataRowCount

C1_Witness ==
    /\ WellFormedLog
    /\ DataRowCount = 2
    /\ log[2].ts = 2 /\ log[3].ts = 1
    /\ iters[1].ends > 0
    /\ Len(iters[1].out) = 2

\* The failures the row at file index k can have: non-numeric text in a
\* numeric column, a row the CSV reader rejects (its field count differs
\* from the header's), an image that does not open or decode.
NonNumericText(row) ==
    row.ts = 0 \/ (kind # "camera" /\ row.bad # 0 /\ row.bad < Cols(kind))
MalformedCsvRow(row) == row.n # log[1].n
ImageFails(row) == kind = "camera" /\ row.img # "ok"
RowFails(row) == NonNumericText(row) \/ MalformedCsvRow(row) \/ ImageFails(row)

\* C4: a row that fails to parse (non-numeric text, a malformed CSV row, a
\* camera image that does not open) gives an error item at its own next()
\* call and does not end the stream: each call consumes one row, every
\* later well-formed row is yielded as its record, and None comes only once
\* every row has been attempted.
C4_RowFailuresArePerItem ==
    \A i \in Slots :
        LET it == iters[i]
        IN  /\ \A k \in 1..Len(it.out) :
                  /\ RowFails(log[k + 1]) => it.out[k].tag = "Err"
                  /\ (WellFormedRow(log[k + 1]) /\ ~MalformedCsvRow(log[k + 1])) =>
                        /\ it.out[k].tag = "Ok"
                        /\ it.out[k].v.timestamp = log[k + 1].ts
            /\ (it.st = "open" /\ Len(it.out) > 0) => it.rd.off = Len(it.out) + 1
            /\ it.ends > 0 => Len(it.out) = DataRowCount

C4_Witness ==
    /\ DataRowCount = 2
    /\ RowFails(log[2])
    /\ Len(iters[1].out) = 2
    /\ iters[1].out[1].tag = "Err"
    /\ iters[1].out[2].tag = "Ok"

\* C6: every records() call gives an iterator with a cursor of its own that
\* starts at the first data row: where an iterator stands depends on the
\* calls made on it alone, any two iterators of the facade agree on every
\* item both have yielded, and each one, drained, has yielded every row.
C6_IteratorsAreIndependent ==
    \A i \in Slots :
        LET it == iters[i]
        IN  /\ it.st # "none" =>
                  it.rd.off = IF CallsMade(it) = 0 THEN 0
                              ELSE IF CallsMade(it) + 1 <= Len(log) THEN CallsMade(it) + 1
                              ELSE Len(log)
            /\ it.ends > 0 => Len(it.out) = DataRowCount
            /\ \A j \in Slots : \A k \in 1..Len(it.out) :
                  k <= Len(iters[j].out) => iters[j].out[k] = it.out[k]

\* The second iterator yields its first item after the first was drained.
C6_Witness ==
    /\ DataRowCount = 2
    /\ iters[1].ends > 0
    /\ Len(iters[1].out) = 2
    /\ ret.op = "next" /\ ret.it = 2
    /\ Len(iters[2].out) = 1

\* C7: the sequence is finite and ends cleanly.  An iterator that has not
\* panicked yields at most N items, then None (never an error in its
\* place, never None before the N rows were attempted); once it has
\* returned None every later call returns None; its cursor never moves
\* back, and moves forward with every item it yields.
C7_Step ==
    \A i \in Slots :
        LET a == iters[i]
            b == iters'[i]
        IN  /\ Len(b.out) <= DataRowCount
            /\ b.ends > 0 => Len(b.out) = DataRowCount
            /\ (ret'.op = "next" /\ ret'.it = i /\ b # a) =>
                  IF Len(a.out) = DataRowCount
                  THEN ret'.res = None /\ b.ends = a.ends + 1
                  ELSE ret'.res # None /\ b.ends = 0
            /\ a.st # "none" =>
                  /\ b.rd.off >= a.rd.off
                  /\ Len(b.out) > Len(a.out) => b.rd.off > a.rd.off
                  /\ a.ends > 0 => (b.out = a.out /\ b.ends >= a.ends /\ b.st = "open")

C7_FiniteCleanEnd == [][C7_Step]_vars

C7_Witness ==
    /\ DataRowCount = 2
    /\ iters[1].ends = 2
    /\ Len(iters[1].out) = 2

\* What the constructors require of the folder.
CompleteLayout(k, f) ==
    /\ f.dir
    /\ f.csv
    /\ f.yaml
    /\ k = "camera" => f.data

\* C2: constructing a facade succeeds exactly when the path is a directory
\* holding data.csv and sensor.yaml (and data/ for the camera); otherwise it
\* returns an error and there is no facade; either way neither sensor.yaml
\* nor data.csv has been opened, and without a facade they never are.
C2_Step ==
    /\ (facade = "none" /\ facade' # "none") =>
          /\ facade' = "ok" <=> CompleteLayout(kind, fs)
          /\ ret'.op = "new"
          /\ ret'.res.tag = "Ok" <=> facade' = "ok"
          /\ ret'.res.tag = "Err" <=> facade' = "err"
          /\ opened' = NothingOpened
    /\ facade' # "ok" =>
          /\ opened' = NothingOpened
          /\ \A i \in Slots : iters'[i].st = "none"

C2_ConstructionIffLayout == [][C2_Step]_vars

C2_Witness ==
    /\ kind = "camera"
    /\ fs = [FullLayout EXCEPT !.data = FALSE]
    /\ facade = "err"
    /\ ret.op = "new"
    /\ ret.res.tag = "Err"

\* C5: records() does not validate the folder again, it opens data.csv: a
\* records() call made when data.csv is gone returns an Io error from the
\* call itself and hands out no iterator, so nothing is yielded from it; a
\* call made while data.csv is there gives an open iterator, whatever else
\* of the folder is gone.
C5_Step ==
    (ret'.op = "records" /\ <<ret, iters>>' # <<ret, iters>>) =>
        IF ~fs.csv
        THEN /\ ret'.res = Err("Io")
             /\ iters' = iters
        ELSE /\ ret'.res.tag = "Ok"
             /\ iters[ret'.it].st = "none"
             /\ iters'[ret'.it].st = "open"
             /\ iters'[ret'.it].out = <<>>

C5_RecordsFailsAtCall == [][C5_Step]_vars

C5_Witness ==
    /\ facade = "ok"
    /\ ~fs.csv
    /\ ret.op = "records"
    /\ ret.res = Err("Io")
    /\ \A i \in Slots : iters[i].st = "none"

\* C9: camera_matrix() is a function of what intrinsics() returns: when
\* that is (fu, fv, cu, cv) the matrix holds fu, fv at [0][0], [1][1], cu,
\* cv at [0][2], [1][2], 1 at [2][2] and 0 elsewhere; when intrinsics()
\* fails, camera_matrix() fails the same way.
C9_CameraMatrixOfIntrinsics ==
    ret.op = "camera_matrix" =>
        LET i == intrinsics
            m == ret.res.v
        IN  IF i.tag = "Ok"
            THEN /\ ret.res.tag = "Ok"
                 /\ m[1][1] = i.v[1] /\ m[2][2] = i.v[2]
                 /\ m[1][3] = i.v[3] /\ m[2][3] = i.v[4]
                 /\ m[3][3] = 1
                 /\ m[1][2] = 0 /\ m[2][1] = 0 /\ m[3][1] = 0 /\ m[3][2] = 0
            ELSE ret.res = i

C9_Witness ==
    /\ ret.op = "camera_matrix"
    /\ ret.res.tag = "Ok"
    /\ ret.res.v[1][3] = 7
    /\ ret.res.v[2][3] = 11

\* The descriptor is readable and holds a document.
HasDocument == fs.yaml /\ yaml.syntax = "ok" /\ Len(yaml.docs) > 0

\* The key each accessor reads.
KeyOf(op) ==
    CASE op = "image_size" -> "resolution"
      [] op = "intrinsics" -> "intrinsics"
      [] op = "camera_matrix" -> "intrinsics"
      [] op = "distrotion_coeff" -> "distortion_coefficients"
      [] op = "extrinsics" -> "T_BS"
      [] op = "gyro_noise_density" -> "gyroscope_noise_density"
      [] op = "gyro_random_walk" -> "gyroscope_random_walk"
      [] op = "accel_noise_density" -> "accelerometer_noise_density"
      [] op = "accel_random_walk" -> "accelerometer_random_walk"

\* The document is the fixture's but for one key, which it lacks.
LacksOnly(key) == HasDocument /\ yaml.docs[1] = Without(FixtureDoc, key)

\* C3: on a descriptor that lacks one required key, the accessor reading
\* that key returns a Malformed error, and every other accessor returns its
\* value.
C3_MissingKeyIsMalformed ==
    \A key \in Keys :
        (LacksOnly(key) /\ ret.op \in AccessorNames) =>
            IF KeyOf(ret.op) = key
            THEN ret.res = Err("Malformed")
            ELSE ret.res.tag = "Ok"

\* C8: on a sensor.yaml that holds no document, every accessor returns a
\* Malformed error.
C8_NoDocumentIsMalformed ==
    (fs.yaml /\ yaml.syntax = "ok" /\ Len(yaml.docs) = 0 /\ ret.op \in AccessorNames) =>
        ret.res = Err("Malformed")

\* An i64 node that is a u32: 0 <= q * 2^16 + r < 2^32.
InU32(node) == node.q >= 0 /\ node.q < Radix

\* C10: image_size() returns each resolution integer in 0..2^32-1
\* unchanged, and returns an OutOfRange error when one of the two is
\* negative or at least 2^32.
C10_ImageSizeNarrows ==
    (/\ ret.op = "image_size"
     /\ HasDocument
     /\ yaml.docs[1]["resolution"].t = "array"
     /\ yaml.docs[1]["resolution"].v \in Resolutions) =>
        LET res == yaml.docs[1]["resolution"].v
        IN  IF InU32(res[1]) /\ InU32(res[2])
            THEN /\ ret.res.tag = "Ok"
                 /\ \A j \in 1..2 : ret.res.v[j].q = res[j].q /\ ret.res.v[j].r = res[j].r
            ELSE ret.res = Err("OutOfRange")

\* C11 as stated: the header is consumed at iterator construction, so an
\* iterator records() has returned has already read the header row.
C11_HeaderReadAtConstruction ==
    \A i \in Slots :
        iters[i].st = "open" => (iters[i].rd.hdr /\ iters[i].rd.off >= 1)

\* C11, amended: the header row is consumed and discarded exactly once, by
\* the first next() call.  records() returns an iterator that has read
\* nothing; the first next() reads the header and goes on to the first data
\* row, which is what it yields; every later next() reads at most one row,
\* hands on the row it read and never reads the header again.
C11_Step ==
    \A i \in Slots :
        LET a == iters[i]
            b == iters'[i]
        IN  /\ (a.st = "none" /\ b.st = "open") =>
                  (b.rd.off = 0 /\ ~b.rd.hdr /\ CallsMade(b) = 0)
            /\ (a.st = "open" /\ b # a) =>
                  IF CallsMade(a) = 0
                  THEN /\ a.rd.off = 0 /\ ~a.rd.hdr
                       /\ b.rd.hdr
                       /\ b.rd.off = IF Len(log) >= 2 THEN 2 ELSE Len(log)
                  ELSE /\ a.rd.hdr /\ b.rd.hdr
                       /\ a.rd.off >= 1
                       /\ b.rd.off >= a.rd.off
                       /\ b.rd.off <= a.rd.off + 1
                       /\ b.rd.off = a.rd.off + 1 =>
                             (Len(b.out) = Len(a.out) + 1 \/ b.st = "dead")
            /\ (Len(b.out) >= 1 /\ WellFormedRow(log[2]) /\ ~MalformedCsvRow(log[2])) =>
                  /\ b.out[1].tag = "Ok"
                  /\ b.out[1].v.timestamp = log[2].ts

C11_HeaderReadByFirstNext == [][C11_Step]_vars

C11_Witness ==
    /\ DataRowCount = 2
    /\ ret.op = "next" /\ ret.it = 1
    /\ iters[1].rd.hdr
    /\ iters[1].rd.off = 3
    /\ Len(iters[1].out) = 2
    /\ iters[1].out[1].tag = "Ok"

====
